---------------------------- MODULE Spec2Model ----------------------------
(***************************************************************************)
(* Model of cpp_recursive_types/lazy_concat.cpp: the lazy concatenation    *)
(* chain lazy_concatenator<Head, Tail...> and its base case               *)
(* lazy_concatenator<>.                                                    *)
(*                                                                         *)
(* A chain value is the sequence of its fragments, head first: the first   *)
(* element is m_head (the fragment appended last), the rest is m_tail.     *)
(* The shape (the template parameter pack) is the length of the sequence.  *)
(* A std::string is a sequence of characters.                              *)
(***************************************************************************)
EXTENDS Integers, Sequences, FiniteSets

(* ------------------------------ bounds -------------------------------- *)

\* Number of chain variables a program declares (LAZY is the first).
NSlots == 4

\* Longest chain of the size-arithmetic specification.
MaxLens == 3

Slots == 1..NSlots

\* The fragments a program appends: the empty string, a one-character
\* string and a two-character string with distinct characters.
Fragments == { <<>>, <<"a">>, <<"b", "c">> }

\* Length of the longest fragment.
MaxFragLen ==
  CHOOSE n \in {Len(f) : f \in Fragments} : \A f \in Fragments : Len(f) <= n

\* Length of the destination a caller hands to save(): room for the largest
\* chain plus a margin.
DestLen == MaxFragLen * (NSlots - 1) + 1

\* The filler character of std::string(size(), '\0').
NUL == "\\0"

\* Content of the caller's destination before save() (not a fragment char).
Blank == "_"

(* --------------------------- 32-bit int ------------------------------- *)

\* INT_MAX of the int that size() returns.
IntMax == 2147483647

\* String lengths of the size-arithmetic specification (std::string::size()
\* values up to INT_MAX).
BigLens == {0, 1, 1073741824, IntMax}

\* m_head.size() + m_tail.size() returned as int: the size_t sum converted to
\* a 32-bit int, for 0 <= h <= IntMax and -IntMax - 1 <= t <= IntMax.  The sum
\* h + t wraps by 2^32 exactly when it exceeds IntMax.
IntAdd(h, t) ==
  IF t >= 0 /\ h > IntMax - t
    THEN (h - IntMax - 1) + (t - IntMax - 1)
    ELSE h + t

(* ------------------------------ chains -------------------------------- *)

\* lazy_concatenator<>(): the chain of no fragment.
Empty == <<>>

m_head(c) == Head(c)

m_tail(c) == Tail(c)

\* lazy_concatenator(Head data, lazy_concatenator<Tail...> tail)
lazy_concatenator(data, tail) == <<data>> \o tail

\* The shape of a chain: the number of its template parameters.
Shape(c) == Len(c)

\* size() over the lengths of the fragments, head first.
RECURSIVE sizeOf(_)
sizeOf(lens) ==
  IF lens = <<>>
    THEN 0
    ELSE IntAdd(Head(lens), sizeOf(Tail(lens)))

\* m_head.size() at every level of the chain, head first.
StrSizes(c) == [k \in DOMAIN c |-> Len(c[k])]

\* int size() const
size(c) == sizeOf(StrSizes(c))

\* std::copy(first, last, begin) into a destination: out.buf is the
\* destination, out.count the number of writes each position has received.
\* begin is the offset of the first position written (0 is the first
\* position of the destination).
std_copy(frag, begin, out) ==
  [ buf   |-> [k \in DOMAIN out.buf |->
                 IF begin < k /\ k <= begin + Len(frag)
                   THEN frag[k - begin] ELSE out.buf[k]],
    count |-> [k \in DOMAIN out.count |->
                 IF begin < k /\ k <= begin + Len(frag)
                   THEN out.count[k] + 1 ELSE out.count[k]] ]

\* save() that hands end, not begin, to the tail: the tail overwrites the head.
RECURSIVE save_tail_at_end(_, _, _)
save_tail_at_end(c, end, out) ==
  IF c = Empty
    THEN out
    ELSE LET begin == end - Len(m_head(c))
         IN  save_tail_at_end(m_tail(c), end, std_copy(m_head(c), begin, out))

\* void save(OutputIterator end) const
RECURSIVE save(_, _, _)
save(c, end, out) ==
  IF c = Empty
    THEN out
    ELSE LET begin == end - Len(m_head(c))
         IN  save(m_tail(c), begin, std_copy(m_head(c), begin, out))

\* operator+ that puts the new fragment below the oldest one.
operator_plus_innermost(c, other) == c \o <<other>>

\* operator+(const std::string &other) const
operator_plus(c, other) == lazy_concatenator(other, c)

\* A destination of n positions all holding ch, no position written yet.
Fresh(n, ch) == [ buf |-> [k \in 1..n |-> ch], count |-> [k \in 1..n |-> 0] ]

\* Conversion with a buffer one character too long.
operator_string_padded(c) == save(c, size(c) + 1, Fresh(size(c) + 1, NUL)).buf

\* operator std::string() const of a chain of at least one fragment
operator_string(c) == save(c, size(c), Fresh(size(c), NUL)).buf

(* ------------------------ reference functions ------------------------- *)

RECURSIVE Reverse(_)
Reverse(s) == IF s = <<>> THEN <<>> ELSE Reverse(Tail(s)) \o <<Head(s)>>

\* f1 ++ f2 ++ ... ++ fn
RECURSIVE Concat(_)
Concat(fs) == IF fs = <<>> THEN <<>> ELSE Head(fs) \o Concat(Tail(fs))

(* ------------------------------- state -------------------------------- *)

VARIABLES
  nvars,      \* number of chain variables declared so far: slots 1..nvars
  chains,     \* the value of every chain variable (Empty when not declared)
  appended,   \* history: the fragments appended to build each variable, oldest first
  snap,       \* history: the first string each variable or an ancestor of it
              \* converted to, and the fragments appended since
  last,       \* the last operation executed and what it returned
  lens        \* size arithmetic: the fragment lengths of one chain, head first

vars == <<nvars, chains, appended, snap, last, lens>>

NoSnap == [known |-> FALSE, str |-> <<>>, more |-> <<>>]

\* The record of an operation: op its name, src the operand (the right-hand
\* side of an assignment), dst the variable defined or assigned, frag the
\* fragment appended, ok whether the expression is well-formed, alloc the
\* number of string buffers it allocated, value the int returned, str the
\* string returned or the destination after save(), count the writes per
\* position of the destination, end the iterator given to save, again
\* whether a size() call directly follows a size() call on the same variable.
Rec(op, src, dst, frag, ok, alloc, value, str, count, end) ==
  [op |-> op, src |-> src, dst |-> dst, frag |-> frag, ok |-> ok,
   alloc |-> alloc, value |-> value, str |-> str, count |-> count, end |-> end,
   again |-> FALSE]

\* main: lazy_concat LAZY;
Init ==
  /\ nvars = 1
  /\ chains = [i \in Slots |-> Empty]
  /\ appended = [i \in Slots |-> <<>>]
  /\ snap = [i \in Slots |-> NoSnap]
  /\ last = Rec("init", 0, 1, <<>>, TRUE, 0, 0, <<>>, <<>>, 0)
  /\ lens = <<>>

\* lazy_concatenator<>::operator+(const std::string &other)
operator_plus_base(other) == lazy_concatenator(other, Empty)

\* operator+ that appends in place: the operand becomes the result as well.
PlusInPlace(i, f) ==
  /\ i <= nvars
  /\ nvars < NSlots
  /\ LET j == nvars + 1
         r == IF chains[i] = Empty
                THEN operator_plus_base(f)
                ELSE operator_plus(chains[i], f)
     IN  /\ chains' = [chains EXCEPT ![j] = r, ![i] = r]
         /\ appended' = [appended EXCEPT ![j] = Append(appended[i], f)]
         /\ snap' = [snap EXCEPT ![j] = NoSnap]
         /\ last' = Rec("plus", i, j, f, TRUE, 0, 0, <<>>, <<>>, 0)
  /\ nvars' = nvars + 1
  /\ UNCHANGED lens

\* auto v = chains[i] + f;  v is the next variable declared.
Plus(i, f) ==
  /\ i <= nvars
  /\ nvars < NSlots
  /\ LET j == nvars + 1
         r == IF chains[i] = Empty
                THEN operator_plus_base(f)
                ELSE operator_plus(chains[i], f)
     IN  /\ chains' = [chains EXCEPT ![j] = r]
         /\ appended' = [appended EXCEPT ![j] = Append(appended[i], f)]
         /\ snap' = [snap EXCEPT ![j] =
                       IF snap[i].known
                         THEN [snap[i] EXCEPT !.more = Append(@, f)]
                         ELSE NoSnap]
         /\ last' = Rec("plus", i, j, f, TRUE, 0, 0, <<>>, <<>>, 0)
  /\ nvars' = nvars + 1
  /\ UNCHANGED lens

\* size() that consumes the head it has counted.
SizeConsuming(i) ==
  /\ i <= nvars
  /\ last' = [Rec("size", i, 0, <<>>, TRUE, 0, size(chains[i]), <<>>, <<>>, 0)
                EXCEPT !.again = (last.op = "size" /\ last.src = i)]
  /\ chains' = [chains EXCEPT ![i] = IF @ = Empty THEN @ ELSE m_tail(@)]
  /\ UNCHANGED <<nvars, appended, snap, lens>>

\* chains[i].size()
Size(i) ==
  /\ i <= nvars
  /\ last' = [Rec("size", i, 0, <<>>, TRUE, 0, size(chains[i]), <<>>, <<>>, 0)
                EXCEPT !.again = (last.op = "size" /\ last.src = i)]
  /\ UNCHANGED <<nvars, chains, appended, snap, lens>>

\* std::string s = chains[i];  The base case lazy_concatenator<> declares no
\* conversion to std::string, so the statement is ill-formed for the empty
\* chain (ok = FALSE, no string).
String(i) ==
  /\ i <= nvars
  /\ IF chains[i] = Empty
       THEN /\ last' = Rec("string", i, 0, <<>>, FALSE, 0, 0, <<>>, <<>>, 0)
            /\ UNCHANGED snap
       ELSE LET s == operator_string(chains[i])
            IN  /\ last' = Rec("string", i, 0, <<>>, TRUE, 1, 0, s, <<>>, 0)
                /\ snap' = [snap EXCEPT ![i] =
                              IF @.known THEN @
                              ELSE [known |-> TRUE, str |-> s, more |-> <<>>]]
  /\ UNCHANGED <<nvars, chains, appended, lens>>

\* chains[i].save(dest.begin() + end) on a caller's destination of DestLen
\* positions, under the precondition that [end - size(), end) lies in it.
Save(i, end) ==
  /\ i <= nvars
  /\ size(chains[i]) <= end
  /\ end <= DestLen
  /\ LET out == save(chains[i], end, Fresh(DestLen, Blank))
     IN  last' = Rec("save", i, 0, <<>>, TRUE, 0, 0, out.buf, out.count, end)
  /\ UNCHANGED <<nvars, chains, appended, snap, lens>>

\* The chains of a shape: what a variable of that type can hold.
ChainsOfShape(n) == [1..n -> Fragments]

\* lazy_concatenator &operator=(const lazy_concatenator &other): the values
\* *this can hold afterwards.  m_head = other.m_head; then the statement
\* m_tail = other.tail names a member that does not exist, and the function
\* flows off its end without a return: m_tail is whatever the build leaves.
operator_assign(self, other) ==
  { lazy_concatenator(m_head(other), t) : t \in ChainsOfShape(Shape(self) - 1) }

\* An operator= template that accepts a chain of any type that has a head.
AnyType(self, other) == other # Empty

\* const lazy_concatenator &other: the argument of operator= has the type of
\* *this, the same template arguments.
SameType(self, other) == Shape(self) = Shape(other)

\* chains[a] = chains[b] for two variables a and b;  selected only when both
\* have the same type.  The base case has the implicit copy assignment and
\* no member to copy.
Assign(a, b) ==
  /\ a <= nvars
  /\ b <= nvars
  /\ a # b
  /\ SameType(chains[a], chains[b])
  /\ \E r \in (IF chains[a] = Empty THEN {Empty}
                                   ELSE operator_assign(chains[a], chains[b])) :
       chains' = [chains EXCEPT ![a] = r]
  /\ snap' = [snap EXCEPT ![a] = NoSnap]
  /\ last' = Rec("assign", b, a, <<>>, TRUE, 0, 0, <<>>, <<>>, 0)
  /\ UNCHANGED <<nvars, appended, lens>>

\* Size arithmetic: chain + a fragment of n characters.
PlusLen(n) ==
  /\ Len(lens) < MaxLens
  /\ lens' = <<n>> \o lens
  /\ last' = Rec("plus", 0, 0, <<>>, TRUE, 0, n, <<>>, <<>>, 0)
  /\ UNCHANGED <<nvars, chains, appended, snap>>

\* Size arithmetic: chain.size()
SizeLen ==
  /\ last' = Rec("size", 0, 0, <<>>, TRUE, 0, sizeOf(lens), <<>>, <<>>, 0)
  /\ UNCHANGED <<nvars, chains, appended, snap, lens>>

\* Append, size() and conversion to std::string.
Next ==
  \/ \E i \in Slots, f \in Fragments : Plus(i, f)
  \/ \E i \in Slots : Size(i)
  \/ \E i \in Slots : String(i)

Spec == Init /\ [][Next]_vars

\* Append and save() into a caller's destination.
NextSave ==
  \/ \E i \in Slots, f \in Fragments : Plus(i, f)
  \/ \E i \in Slots, end \in 0..DestLen : Save(i, end)

SpecSave == Init /\ [][NextSave]_vars

\* Append and reassignment.
NextAssign ==
  \/ \E i \in Slots, f \in Fragments : Plus(i, f)
  \/ \E a \in Slots, b \in Slots : Assign(a, b)

SpecAssign == Init /\ [][NextAssign]_vars

\* size() on chains of long fragments.
NextSize ==
  \/ \E n \in BigLens : PlusLen(n)
  \/ SizeLen

SpecSize == Init /\ [][NextSize]_vars

(* ------------------------------- claims ------------------------------- *)

\* The variables declared so far.
Declared == 1..nvars

RECURSIVE ExactSum(_)
ExactSum(ls) ==
  IF ls = <<>>
    THEN 0
    ELSE LET r == ExactSum(Tail(ls))
         IN  IF r = -1 \/ Head(ls) > IntMax - r THEN -1 ELSE Head(ls) + r

\* C2: (C + f).size() = C.size() + length(f) for every chain C and fragment
\* f, so size() is the sum of the lengths of the fragments appended.
C2_SizeAdditive ==
  lens # <<>> =>
     LET h == Head(lens)
         t == sizeOf(Tail(lens))
     IN  /\ (t >= 0 => h <= IntMax - t)
         /\ sizeOf(lens) = h + t
         /\ sizeOf(lens) = ExactSum(lens)

\* C3: the empty chain has size() 0 and converts to the empty string, and a
\* chain of one fragment f converts to f.
C3_TerminalIdentity ==
  /\ (last.op = "size" /\ chains[last.src] = Empty) => last.value = 0
  /\ (last.op = "string" /\ chains[last.src] = Empty) =>
        (last.ok /\ last.str = <<>>)
  /\ (last.op = "string" /\ Shape(chains[last.src]) = 1) =>
        (last.ok /\ last.str = m_head(chains[last.src]))

\* C4: after A = B between two chains A and B of the same shape, A has B's
\* head and B's whole tail, so A's size() and conversion are B's, and B is
\* unchanged.
C4_Resumability ==
  [][(last'.op = "assign" /\ last'.dst # last'.src) =>
       LET a == last'.dst
           b == last'.src
       IN  /\ chains'[a] = chains[b]
           /\ size(chains'[a]) = size(chains[b])
           /\ save(chains'[a], DestLen, Fresh(DestLen, Blank))
                = save(chains[b], DestLen, Fresh(DestLen, Blank))
           /\ chains'[b] = chains[b]]_vars

\* C5: C + f leaves C as it was, and later appends to the result or
\* reassignments of the result never change C: a step changes no variable
\* but the one an assignment assigns to.
C5_AppendKeepsOperand ==
  [][\A i \in Declared :
       /\ last'.op = "plus" =>
             /\ chains'[i] = chains[i]
             /\ size(chains'[i]) = size(chains[i])
       /\ (last'.op = "assign" /\ i # last'.dst) =>
             chains'[i] = chains[i]]_vars

\* C5 witness: variable 3 was defined as variable 2 + f and then reassigned
\* to something else, and variable 2 still holds what was appended to it.
C5_Witness ==
  /\ last.op = "assign"
  /\ last.dst = 3
  /\ Len(appended[3]) = 2
  /\ appended[3] = Append(appended[2], appended[3][2])
  /\ chains[3] # Reverse(appended[3])
  /\ chains[2] = Reverse(appended[2])

\* C6: size() is never negative and never wraps: it is at least the length
\* of every fragment of the chain.
C6_SizeNonNegative ==
  last.op = "size" =>
     /\ last.value >= 0
     /\ \A k \in DOMAIN lens : last.value >= lens[k]

\* C7: the shape of a chain is the number of appends that built it, an
\* append yields a shape one greater than its operand's, and an assignment
\* is between chains of equal shape.
C7_ShapeDistinct ==
  /\ \A i \in Declared : Shape(chains[i]) = Len(appended[i])
  /\ last.op = "plus" =>
        Shape(chains[last.dst]) = Shape(chains[last.src]) + 1
  /\ last.op = "assign" =>
        Shape(chains[last.dst]) = Shape(chains[last.src])

\* C7 witness: an assignment between two different variables of two
\* fragments each, after three appends.
C7_Witness ==
  /\ last.op = "assign"
  /\ last.dst # last.src
  /\ Shape(chains[last.dst]) = 2
  /\ Shape(chains[last.src]) = 2
  /\ nvars = NSlots

\* C8: size() changes no chain and allocates no buffer, and a size() call
\* that directly follows a size() call on the same variable returns the
\* same value.
C8_SizeIsPure ==
  [][last'.op = "size" =>
       /\ chains' = chains
       /\ last'.alloc = 0
       /\ last'.again => last'.value = last.value]_vars

\* C8 witness: a repeated size() call on a chain of three fragments.
C8_Witness ==
  /\ last.op = "size"
  /\ last.again
  /\ Shape(chains[last.src]) = 3
  /\ last.value = 3

\* C9: save(end) on a chain of size s writes each position of [end - s, end)
\* once and no other position; the head lies in [end - len(head), end) and
\* the older fragments before it, in append order; on the empty chain it
\* writes nothing.
C9_SaveRegion ==
  last.op = "save" =>
     LET c == chains[last.src]
         s == size(c)
         e == last.end
     IN  /\ \A k \in 1..DestLen :
              /\ last.count[k] = (IF e - s < k /\ k <= e THEN 1 ELSE 0)
              /\ (k <= e - s \/ k > e) => last.str[k] = Blank
         /\ [k \in 1..s |-> last.str[e - s + k]] = Concat(appended[last.src])
         /\ c # Empty =>
              [k \in 1..Len(m_head(c)) |-> last.str[e - Len(m_head(c)) + k]]
                = m_head(c)
         /\ c = Empty => \A k \in 1..DestLen : last.count[k] = 0

\* C9 witness: save() of the chain "a" + "bc" + "a" ending one position
\* before the destination's end.
C9_Witness ==
  /\ last.op = "save"
  /\ appended[last.src] = << <<"a">>, <<"b", "c">>, <<"a">> >>
  /\ last.end = DestLen - 1
  /\ \E k \in 1..DestLen : last.count[k] = 1

=============================================================================
